---- MODULE Spec2Model ----
(***************************************************************************)
(* Demand-paged virtual memory emulation: the client-side address          *)
(* translator (vmaccess.c), the manager-side fault handler with its three  *)
(* replacement policies (mmanage.c) and the swap store (pagefile.c).       *)
(*                                                                         *)
(* The two processes share the segment (entries, framepage, adm, data),    *)
(* the pending SIGUSR1 and the named counting semaphore.  Each process is  *)
(* a program counter; the statements between two synchronisation points   *)
(* of a process are one action.                                            *)
(***************************************************************************)
EXTENDS Integers, Sequences, FiniteSets, TLC

(***************************************************************************)
(* Bounds of the model.  vmem.h is not part of the sources at hand; the    *)
(* sizes it fixes are scaled down.                                         *)
(***************************************************************************)
NFrames == 2          \* VMEM_NFRAMES
NPages == 3           \* VMEM_NPAGES
PageBits == 1         \* log2(VMEM_PAGESIZE)
MaxWdata == 1         \* values the application writes are 1..MaxWdata
MaxAccess == 4        \* accesses the application performs, any addresses
MaxAligned == 5       \* accesses the application performs, page-aligned addresses
MaxPeriod == 2      \* UPDATE_AGE_COUNT is one of 1..MaxPeriod
MaxFifo == 6        \* accesses issued under FifoSpec
MaxPrior == 1       \* counter values a segment left by an earlier run may hold
MaxLife == 3        \* value of the access counter at which LifeSpec stops issuing accesses

(***************************************************************************)
(* Constants of vmem.h and limits.h, and the initial age of mmanage.c.     *)
(***************************************************************************)
VOID_IDX == -1
PTF_DIRTY == 2
PTF_REF == 4
CHAR_MAX == 127
UCHAR_MAX == 255
AGE_INIT == 128    \* 0x80
VMEM_ALGO_FIFO == 0
VMEM_ALGO_CLOCK == 1
VMEM_ALGO_AGING == 2

VMEM_PAGESIZE == 2 ^ PageBits
VMEM_NFRAMES == NFrames
VMEM_NPAGES == NPages
PhysMemSize == VMEM_NFRAMES * VMEM_PAGESIZE   \* the literal 128 of vmaccess.c
VirtMemSize == VMEM_NPAGES * VMEM_PAGESIZE

Frames == 0 .. (VMEM_NFRAMES - 1)
Pages == 0 .. (VMEM_NPAGES - 1)
Addresses == 0 .. (VirtMemSize - 1)
Wdata == 1 .. MaxWdata
Algos == {VMEM_ALGO_FIFO, VMEM_ALGO_CLOCK, VMEM_ALGO_AGING}
NoVal == VOID_IDX   \* marks an address without a recorded value

(***************************************************************************)
(* C integer operators on two's complement values of any width.            *)
(***************************************************************************)
RECURSIVE BitAnd(_, _)
BitAnd(x, y) ==
    IF x = 0 \/ y = 0 THEN 0
    ELSE IF x = -1 THEN y
    ELSE IF y = -1 THEN x
    ELSE (x % 2) * (y % 2) + 2 * BitAnd(x \div 2, y \div 2)

RECURSIVE BitOr(_, _)
BitOr(x, y) ==
    IF x = 0 THEN y
    ELSE IF y = 0 THEN x
    ELSE IF x = -1 \/ y = -1 THEN -1
    ELSE (IF x % 2 = 1 \/ y % 2 = 1 THEN 1 ELSE 0) + 2 * BitOr(x \div 2, y \div 2)

RECURSIVE BitXor(_, _)
BitXor(x, y) ==
    IF x = 0 THEN y
    ELSE IF y = 0 THEN x
    ELSE IF x = -1 THEN -y - 1
    ELSE IF y = -1 THEN -x - 1
    ELSE (IF x % 2 = y % 2 THEN 0 ELSE 1) + 2 * BitXor(x \div 2, y \div 2)

BitNot(x) == -x - 1

\* C's / truncates towards zero
CDiv(x, y) == IF x >= 0 THEN x \div y ELSE -((-x) \div y)

\* conversion of an int to unsigned char
ToUChar(x) == x % (UCHAR_MAX + 1)

(***************************************************************************)
(* State.                                                                  *)
(***************************************************************************)
VARIABLES
    entries,       \* vmem->pt.entries[p]: [frame, flags, age]
    framepage,     \* vmem->pt.framepage[f]
    adm,           \* vmem->adm: req_pageno, next_alloc_idx, pf_count, g_count, page_rep_algo
    data,          \* vmem->data[]
    pagefile,      \* the words of pagefile.bin
    sem,           \* value of the named semaphore
    sigusr1,       \* a SIGUSR1 is pending for the manager
    fifo_current,  \* cursor of FIFO and CLOCK (mmanage.c)
    event,         \* the log record under construction (mmanage.c)
    log,           \* the records handed to logger(), oldest first
    mpc,           \* position of the manager
    idx,           \* allocate_page's local idx
    pc,            \* position of the client
    loc,           \* locals of vmem_read / vmem_write
    holder,        \* value returned by the last vmem_read
    written,       \* history: per address, the value written since its page was last evicted
    hist,          \* history: last value written and first value read per address,
                   \* the pages written during their present residency, the
                   \* number of frames the last victim selection inspected, the
                   \* accesses completed and the accesses that found no frame
    res,           \* what the manager process holds or has left behind: swap file,
                   \* its open stream, shared segment, named semaphore, signal
                   \* handlers, and how the process ended
    period         \* the value UPDATE_AGE_COUNT was built with

vars == <<entries, framepage, adm, data, pagefile, sem, sigusr1, fifo_current,
          event, log, mpc, idx, pc, loc, holder, written, hist, res, period>>

UPDATE_AGE_COUNT == period
PageOf(a) == a \div VMEM_PAGESIZE

(***************************************************************************)
(* pagefile.c                                                              *)
(***************************************************************************)
\* init_pagefile: the file is filled from a generator with a fixed seed
PagefileInit == [w \in 0 .. (VirtMemSize - 1) |-> MaxWdata + 1 + (w % 2)]

\* fetch_page_from_pagefile(pt_idx, frame_start): one page read into dat at frame_start
fetch_page_from_pagefile(pt_idx, frame_start, pf, dat) ==
    [w \in DOMAIN dat |->
        IF w >= frame_start /\ w < frame_start + VMEM_PAGESIZE
        THEN pf[pt_idx * VMEM_PAGESIZE + (w - frame_start)]
        ELSE dat[w]]

\* store_page_to_pagefile(pt_idx, frame_start): one page written from dat at frame_start
store_page_to_pagefile(pt_idx, frame_start, pf, dat) ==
    [w \in DOMAIN pf |->
        IF w >= pt_idx * VMEM_PAGESIZE /\ w < (pt_idx + 1) * VMEM_PAGESIZE
        THEN dat[frame_start + (w - pt_idx * VMEM_PAGESIZE)]
        ELSE pf[w]]

(***************************************************************************)
(* mmanage.c: vmem_init and the state after startup                        *)
(***************************************************************************)
Init ==
    /\ entries = [p \in Pages |-> [frame |-> VOID_IDX, flags |-> 0, age |-> AGE_INIT]]
    /\ framepage = [f \in Frames |-> VOID_IDX]
    /\ \E algo \in Algos :
          adm = [req_pageno |-> 0, next_alloc_idx |-> 0, pf_count |-> 0,
                 g_count |-> 0, page_rep_algo |-> algo]
    /\ data = [w \in 0 .. (PhysMemSize - 1) |-> 0]
    /\ pagefile = PagefileInit
    /\ sem = 0
    /\ sigusr1 = FALSE
    /\ fifo_current = -1
    /\ event = [req_pageno |-> 0, replaced_page |-> 0, alloc_frame |-> 0,
                pf_count |-> 0, g_count |-> 0]
    /\ log = << >>
    /\ mpc = "pause"
    /\ idx = VOID_IDX
    /\ pc = "idle"
    /\ loc = [op |-> "none", address |-> 0, wdata |-> 0, offset |-> 0,
              page_index |-> 0, frame |-> VOID_IDX]
    /\ holder = 0
    /\ written = [a \in Addresses |-> NoVal]
    /\ hist = [last |-> [a \in Addresses |-> NoVal],
               seen |-> [a \in Addresses |-> NoVal],
               wsince |-> {},
               visits |-> 0,
               done |-> 0,
               faults |-> 0]
    /\ res = [swapfile |-> TRUE, stream |-> TRUE, shm |-> TRUE, sem |-> TRUE,
              handler |-> TRUE, status |-> "running",
              created |-> {"swapfile", "shm", "sem"}]
    /\ period \in 1 .. MaxPeriod


(***************************************************************************)
(* mmanage.c: the replacement policies.  Each returns a record with the    *)
(* victim frame (idx) and the state it leaves behind; dat is the frame     *)
(* data, which no policy changes.                                          *)
(***************************************************************************)
\* find_free_frame that returns the free frame with the largest index
find_free_frame_last ==
    IF \E f \in Frames : framepage[f] = VOID_IDX
    THEN CHOOSE f \in Frames :
            /\ framepage[f] = VOID_IDX
            /\ \A g \in Frames : framepage[g] = VOID_IDX => f >= g
    ELSE VOID_IDX

\* find_free_frame: smallest free frame, or VOID_IDX
find_free_frame ==
    IF \E f \in Frames : framepage[f] = VOID_IDX
    THEN CHOOSE f \in Frames :
            /\ framepage[f] = VOID_IDX
            /\ \A g \in Frames : framepage[g] = VOID_IDX => f <= g
    ELSE VOID_IDX

\* store_page that always writes the first frame to the swap store
store_page_first(pt_idx, next_alloc_idx, pf, dat) ==
    store_page_to_pagefile(pt_idx, 0, pf, dat)

\* store_page(pt_idx): the frame written is the one next_alloc_idx names
store_page(pt_idx, next_alloc_idx, pf, dat) ==
    store_page_to_pagefile(pt_idx, next_alloc_idx * VMEM_PAGESIZE, pf, dat)

\* NextCursor with the wrap to frame 0 left out
NextCursor_nowrap(cur) == IF cur = VMEM_NFRAMES - 1 THEN cur ELSE cur + 1

\* the cursor step shared by FIFO and CLOCK
NextCursor(cur) == IF cur = VMEM_NFRAMES - 1 THEN 0 ELSE cur + 1

\* WriteBack without the test of the DIRTY bit
WriteBack_always(element, frame, ents, pf, dat) == store_page(element, frame, pf, dat)

\* write-back of the victim when its DIRTY bit is set
WriteBack(element, frame, ents, pf, dat) ==
    IF BitAnd(ents[element].flags, PTF_DIRTY) = PTF_DIRTY
    THEN store_page(element, frame, pf, dat)
    ELSE pf

\* find_remove_fifo without the reset of the victim's entry
find_remove_fifo_keep(ents, cur, pf, dat) ==
    LET fc == NextCursor(cur)
        element == framepage[fc]
    IN  [idx |-> fc,
         fifo_current |-> fc,
         next_alloc_idx |-> fc,
         replaced_page |-> element,
         pagefile |-> WriteBack(element, fc, ents, pf, dat),
         entries |-> ents,
         visits |-> 1]

\* find_remove_fifo that resets the flags of the victim's entry
find_remove_fifo_clean(ents, cur, pf, dat) ==
    LET fc == NextCursor(cur)
        element == framepage[fc]
    IN  [idx |-> fc,
         fifo_current |-> fc,
         next_alloc_idx |-> fc,
         replaced_page |-> element,
         pagefile |-> WriteBack(element, fc, ents, pf, dat),
         entries |-> [ents EXCEPT ![element].frame = VOID_IDX,
                                  ![element].flags = 0],
         visits |-> 1]

\* find_remove_fifo: advance the cursor, write the victim back, unmap it
find_remove_fifo(ents, cur, pf, dat) ==
    LET fc == NextCursor(cur)
        element == framepage[fc]
    IN  [idx |-> fc,
         fifo_current |-> fc,
         next_alloc_idx |-> fc,
         replaced_page |-> element,
         pagefile |-> WriteBack(element, fc, ents, pf, dat),
         entries |-> [ents EXCEPT ![element].frame = VOID_IDX],
         visits |-> 1]

\* find_remove_clock without the test of the REFERENCED bit
find_remove_clock_noref(ents, cur, pf, dat, visits) ==
    find_remove_fifo(ents, cur, pf, dat)

\* the for(;;) loop of find_remove_clock; visits counts the frames inspected
RECURSIVE find_remove_clock(_, _, _, _, _)
find_remove_clock(ents, cur, pf, dat, visits) ==
    LET fc == NextCursor(cur)
        element == framepage[fc]
    IN  IF BitAnd(ents[element].flags, PTF_REF) = PTF_REF
        THEN find_remove_clock(
                [ents EXCEPT ![element].flags = BitXor(ents[element].flags, PTF_REF)],
                fc, pf, dat, visits + 1)
        ELSE [idx |-> fc,
              fifo_current |-> fc,
              next_alloc_idx |-> fc,
              replaced_page |-> element,
              pagefile |-> WriteBack(element, fc, ents, pf, dat),
              entries |-> [ents EXCEPT ![element].frame = VOID_IDX],
              visits |-> visits + 1]

\* the comparison of the scan with < in place of <=
AgingTakes_strict(candidate, age) == candidate < age

\* the comparison of the scan of find_remove_aging (line 444)
AgingTakes(candidate, age) == candidate <= age

\* the scan of find_remove_aging from frame i on: st = [age, next_alloc_idx]
RECURSIVE AgingScan(_, _, _)
AgingScan(ents, i, st) ==
    IF i >= VMEM_NFRAMES THEN st
    ELSE LET page_number == framepage[i]
         IN  IF AgingTakes(ents[page_number].age, st.age)
             THEN AgingScan(ents, i + 1,
                            [age |-> ents[page_number].age, next_alloc_idx |-> i])
             ELSE AgingScan(ents, i + 1, st)

\* find_remove_aging that leaves the age of the evicted page as it is
find_remove_aging_noreset(ents, cur, pf, dat) ==
    LET scan == AgingScan(ents, 0, [age |-> UCHAR_MAX, next_alloc_idx |-> VOID_IDX])
        nai == IF scan.next_alloc_idx = VOID_IDX THEN 0 ELSE scan.next_alloc_idx
        element == framepage[nai]
    IN  [idx |-> nai,
         fifo_current |-> cur,
         next_alloc_idx |-> nai,
         replaced_page |-> element,
         pagefile |-> WriteBack(element, nai, ents, pf, dat),
         entries |-> [ents EXCEPT ![element].frame = VOID_IDX],
         visits |-> VMEM_NFRAMES]

\* find_remove_aging (lines 438-464): evict the resident page of least age,
\* the last such frame winning, and reset its age
find_remove_aging(ents, cur, pf, dat) ==
    LET scan == AgingScan(ents, 0, [age |-> UCHAR_MAX, next_alloc_idx |-> VOID_IDX])
        nai == IF scan.next_alloc_idx = VOID_IDX THEN 0 ELSE scan.next_alloc_idx
        element == framepage[nai]
    IN  [idx |-> nai,
         fifo_current |-> cur,
         next_alloc_idx |-> nai,
         replaced_page |-> element,
         pagefile |-> WriteBack(element, nai, ents, pf, dat),
         entries |-> [ents EXCEPT ![element].frame = VOID_IDX,
                                  ![element].age = AGE_INIT],
         visits |-> VMEM_NFRAMES]

\* find_remove_frame when no case of the switch matches: idx stays -1
find_remove_frame_none(ents, cur, pf, dat) ==
    [idx |-> 0 - 1,
     fifo_current |-> cur,
     next_alloc_idx |-> adm.next_alloc_idx,
     replaced_page |-> event.replaced_page,
     pagefile |-> pf,
     entries |-> ents,
     visits |-> 0]

\* find_remove_frame: dispatch on the active policy
find_remove_frame(ents, cur, pf, dat) ==
    IF adm.page_rep_algo = VMEM_ALGO_FIFO THEN find_remove_fifo(ents, cur, pf, dat)
    ELSE IF adm.page_rep_algo = VMEM_ALGO_CLOCK THEN find_remove_clock(ents, cur, pf, dat, 0)
    ELSE find_remove_aging(ents, cur, pf, dat)

(***************************************************************************)
(* mmanage.c: allocate_page, run by sighandler on SIGUSR1.                 *)
(***************************************************************************)
\* lines 365-373: pick a free frame or evict
allocate_page_find ==
    /\ mpc = "pause"
    /\ sigusr1
    /\ sigusr1' = FALSE
    /\ LET free == find_free_frame
       IN  IF free # VOID_IDX
           THEN /\ idx' = free
                /\ event' = [event EXCEPT !.replaced_page = VOID_IDX]
                /\ adm' = [adm EXCEPT !.pf_count = @ + 1]
                /\ mpc' = "update"
                /\ UNCHANGED <<entries, pagefile, fifo_current, written, hist>>
           ELSE LET r == find_remove_frame(entries, fifo_current, pagefile, data)
                IN  /\ idx' = r.idx
                    /\ event' = [event EXCEPT !.replaced_page = r.replaced_page]
                    /\ adm' = [adm EXCEPT !.pf_count = @ + 1,
                                          !.next_alloc_idx = r.next_alloc_idx]
                    /\ entries' = r.entries
                    /\ pagefile' = r.pagefile
                    /\ fifo_current' = r.fifo_current
                    /\ written' = [a \in Addresses |->
                                     IF PageOf(a) = r.replaced_page THEN NoVal
                                     ELSE written[a]]
                    /\ hist' = [hist EXCEPT !.wsince = @ \ {r.replaced_page},
                                            !.visits = r.visits]
                    /\ mpc' = IF r.idx < 0 \/ r.idx >= VMEM_NFRAMES
                              THEN "exited" ELSE "fetch"
    /\ UNCHANGED <<framepage, data, sem, log, pc, loc, holder, res, period>>

\* fetch_page that always loads into the first frame
fetch_page_first(pt_idx, ents, pf, dat) ==
    fetch_page_from_pagefile(pt_idx, 0, pf, dat)

\* fetch_page: the frame read is the one the requested page's entry names
fetch_page(pt_idx, ents, pf, dat) ==
    fetch_page_from_pagefile(pt_idx, ents[adm.req_pageno].frame * VMEM_PAGESIZE, pf, dat)

\* lines 374-375: after an eviction, load the requested page
allocate_page_fetch ==
    /\ mpc = "fetch"
    /\ LET ents == [entries EXCEPT ![adm.req_pageno].frame = idx]
       IN  /\ entries' = ents
           /\ data' = fetch_page(adm.req_pageno, ents, pagefile, data)
    /\ mpc' = "update"
    /\ UNCHANGED <<framepage, adm, pagefile, sem, sigusr1, fifo_current, event, log,
                   idx, pc, loc, holder, written, hist, res, period>>

\* lines 377-387: frame table, log record, page table
allocate_page_update ==
    /\ mpc = "update"
    /\ framepage' = [framepage EXCEPT ![idx] = adm.req_pageno]
    /\ event' = [event EXCEPT !.req_pageno = adm.req_pageno,
                              !.alloc_frame = idx,
                              !.pf_count = adm.pf_count,
                              !.g_count = adm.g_count]
    /\ log' = Append(log, event')
    /\ IF adm.req_pageno < 0 \/ adm.req_pageno >= VMEM_NPAGES
       THEN /\ mpc' = "exited"
            /\ UNCHANGED entries
       ELSE /\ mpc' = "post"
            /\ entries' = [entries EXCEPT ![adm.req_pageno].frame = idx]
    /\ UNCHANGED <<adm, data, pagefile, sem, sigusr1, fifo_current, idx, pc, loc,
                   holder, written, hist, res, period>>

\* allocate_page_post with a second sem_post
allocate_page_post_twice ==
    /\ mpc = "post"
    /\ sem' = sem + 2
    /\ mpc' = "pause"
    /\ UNCHANGED <<entries, framepage, adm, data, pagefile, sigusr1, fifo_current,
                   event, log, idx, pc, loc, holder, written, hist, res, period>>

\* allocate_page_post without the sem_post
allocate_page_post_lost ==
    /\ mpc = "post"
    /\ mpc' = "pause"
    /\ UNCHANGED <<entries, framepage, adm, data, pagefile, sem, sigusr1, fifo_current,
                   event, log, idx, pc, loc, holder, written, hist, res, period>>

\* allocate_page_post that also resets the requested-page slot
allocate_page_post_clear ==
    /\ mpc = "post"
    /\ sem' = sem + 1
    /\ adm' = [adm EXCEPT !.req_pageno = 0]
    /\ mpc' = "pause"
    /\ UNCHANGED <<entries, framepage, data, pagefile, sigusr1, fifo_current,
                   event, log, idx, pc, loc, holder, written, hist, res, period>>

\* line 388: sem_post, then the handler returns to pause()
allocate_page_post ==
    /\ mpc = "post"
    /\ sem' = sem + 1
    /\ mpc' = "pause"
    /\ UNCHANGED <<entries, framepage, adm, data, pagefile, sigusr1, fifo_current,
                   event, log, idx, pc, loc, holder, written, hist, res, period>>


(***************************************************************************)
(* vmaccess.c: the address translator.                                     *)
(***************************************************************************)
\* OffsetOf with the page size itself as the mask
OffsetOf_pagesize(address) == BitAnd(address, VMEM_PAGESIZE)

\* the bit-mask decomposition of an address
OffsetOf(address) == BitAnd(address, VMEM_PAGESIZE - 1)

PageIndexOf(address) ==
    CDiv(BitAnd(address, BitNot(VMEM_PAGESIZE - 1)), VMEM_PAGESIZE)

\* PhysIndex without the frame
PhysIndex_offset(frame, offset) == offset

\* the index into vmem->data
PhysIndex(frame, offset) == BitOr(frame * VMEM_PAGESIZE, offset)

\* AgeStep without the reset of the REFERENCED bit
AgeStep_keepref(ents, i) ==
    LET page_number == framepage[i]
    IN  IF page_number = VOID_IDX THEN ents
        ELSE LET r == BitAnd(ents[page_number].flags, PTF_REF)
                 halved == ToUChar(CDiv(ents[page_number].age, 2))
             IN  IF r = PTF_REF
                 THEN [ents EXCEPT
                         ![page_number].age = ToUChar(BitOr(halved, BitNot(CHAR_MAX)))]
                 ELSE [ents EXCEPT ![page_number].age = halved]

\* one iteration of the loop of update_age_reset_ref on frame i
AgeStep(ents, i) ==
    LET page_number == framepage[i]
    IN  IF page_number = VOID_IDX THEN ents
        ELSE LET r == BitAnd(ents[page_number].flags, PTF_REF)
                 halved == ToUChar(CDiv(ents[page_number].age, 2))
             IN  IF r = PTF_REF
                 THEN [ents EXCEPT
                         ![page_number].age = ToUChar(BitOr(halved, BitNot(CHAR_MAX))),
                         ![page_number].flags = BitXor(ents[page_number].flags, PTF_REF)]
                 ELSE [ents EXCEPT ![page_number].age = halved]

RECURSIVE AgeLoop(_, _)
AgeLoop(ents, i) ==
    IF i >= VMEM_NFRAMES THEN ents ELSE AgeLoop(AgeStep(ents, i), i + 1)

\* update_age_reset_ref without the test of g_count
update_age_reset_ref_always(ents, g_count) == AgeLoop(ents, 0)

\* update_age_reset_ref: the pass runs when g_count is a multiple of the period
update_age_reset_ref(ents, g_count) ==
    IF g_count % UPDATE_AGE_COUNT = 0 THEN AgeLoop(ents, 0) ELSE ents

\* AccessFlags with DIRTY set by reads as well
AccessFlags_dirty(op) == BitOr(PTF_DIRTY, PTF_REF)

\* the flags an access sets
AccessFlags(op) == IF op = "write" THEN BitOr(PTF_DIRTY, PTF_REF) ELSE PTF_REF

\* vmem_read lines 89-97 and vmem_write lines 119-127: decompose the address,
\* publish the page number, set the flags, test residency
Begin(op, address, wdata, limit) ==
    /\ pc = "idle"
    /\ adm.g_count < limit
    /\ LET offset == OffsetOf(address)
           page_index == PageIndexOf(address)
           frame == entries[page_index].frame
       IN  /\ loc' = [op |-> op, address |-> address, wdata |-> wdata,
                      offset |-> offset, page_index |-> page_index, frame |-> frame]
           /\ adm' = [adm EXCEPT !.req_pageno = page_index]
           /\ entries' = [entries EXCEPT ![page_index].flags =
                             BitOr(AccessFlags(op), entries[page_index].flags)]
           /\ hist' = [hist EXCEPT
                         !.wsince = IF op = "write" THEN @ \cup {page_index} ELSE @,
                         !.faults = IF frame = VOID_IDX THEN @ + 1 ELSE @]
           /\ pc' = IF frame = VOID_IDX THEN "kill" ELSE "access"
    /\ UNCHANGED <<framepage, data, pagefile, sem, sigusr1, fifo_current, event, log,
                   mpc, idx, holder, written, res, period>>

vmem_read_begin == \E address \in Addresses : Begin("read", address, 0, MaxAccess)

vmem_write_begin ==
    \E address \in Addresses, wdata \in Wdata : Begin("write", address, wdata, MaxAccess)

\* the last address below the address space and the first address above it
OutsideAddresses == {0 - 1, VirtMemSize}

\* vmem_read lines 89-95 for a page number outside the table: line 92 reads
\* entries[page_index] outside the array (any value may come back), line 93
\* publishes the page number, and only then lines 94-95 test it and exit
vmem_read_bounds ==
    /\ pc = "idle"
    /\ adm.g_count < MaxAccess
    /\ \E address \in OutsideAddresses, frame \in Frames \cup {VOID_IDX} :
          LET offset == OffsetOf(address)
              page_index == PageIndexOf(address)
          IN  /\ page_index < 0 \/ page_index >= VMEM_NPAGES
              /\ loc' = [op |-> "read", address |-> address, wdata |-> 0,
                         offset |-> offset, page_index |-> page_index, frame |-> frame]
              /\ adm' = [adm EXCEPT !.req_pageno = page_index]
              /\ pc' = "exited"
    /\ UNCHANGED <<entries, framepage, data, pagefile, sem, sigusr1, fifo_current, event,
                   log, mpc, idx, holder, written, hist, res, period>>

\* vmem_write lines 119-123 for a page number outside the table: the tests of
\* lines 122-123 come first and exit
vmem_write_bounds ==
    /\ pc = "idle"
    /\ adm.g_count < MaxAccess
    /\ \E address \in OutsideAddresses, wdata \in Wdata :
          LET offset == OffsetOf(address)
              page_index == PageIndexOf(address)
          IN  /\ page_index < 0 \/ page_index >= VMEM_NPAGES
              /\ loc' = [op |-> "write", address |-> address, wdata |-> wdata,
                         offset |-> offset, page_index |-> page_index,
                         frame |-> VOID_IDX]
              /\ pc' = "exited"
    /\ UNCHANGED <<entries, framepage, adm, data, pagefile, sem, sigusr1, fifo_current,
                   event, log, mpc, idx, holder, written, hist, res, period>>

\* kill(vmem->adm.mmanage_pid, SIGUSR1)
send_sigusr1 ==
    /\ pc = "kill"
    /\ sigusr1' = TRUE
    /\ pc' = "wait"
    /\ UNCHANGED <<entries, framepage, adm, data, pagefile, sem, fifo_current, event,
                   log, mpc, idx, loc, holder, written, hist, res, period>>

\* sem_wait replaced by a call that does not block
sem_wait_noblock ==
    /\ pc = "wait"
    /\ sem' = IF sem > 0 THEN sem - 1 ELSE sem
    /\ pc' = "access"
    /\ UNCHANGED <<entries, framepage, adm, data, pagefile, sigusr1, fifo_current, event,
                   log, mpc, idx, loc, holder, written, hist, res, period>>

\* sem_wait(local_sem)
sem_wait ==
    /\ pc = "wait"
    /\ sem > 0
    /\ sem' = sem - 1
    /\ pc' = "access"
    /\ UNCHANGED <<entries, framepage, adm, data, pagefile, sigusr1, fifo_current, event,
                   log, mpc, idx, loc, holder, written, hist, res, period>>

\* the end of an access: count it and, under AGING, run the decay pass
Finish ==
    /\ adm' = [adm EXCEPT !.g_count = @ + 1]
    /\ entries' = IF adm.page_rep_algo = VMEM_ALGO_AGING
                  THEN update_age_reset_ref(entries, adm.g_count + 1)
                  ELSE entries

\* vmem_read lines 101-109
vmem_read_access ==
    /\ pc = "access"
    /\ loc.op = "read"
    /\ LET page == PhysIndex(entries[loc.page_index].frame, loc.offset)
       IN  IF page < 0 \/ page >= PhysMemSize
           THEN /\ pc' = "exited"
                /\ UNCHANGED <<adm, entries, holder, hist>>
           ELSE /\ holder' = data[page]
                /\ hist' = [hist EXCEPT !.seen[loc.address] =
                                            IF @ = NoVal THEN data[page] ELSE @,
                                        !.done = @ + 1]
                /\ Finish
                /\ pc' = "idle"
    /\ UNCHANGED <<framepage, data, pagefile, sem, sigusr1, fifo_current, event, log,
                   mpc, idx, loc, written, res, period>>

\* vmem_write lines 131-138
vmem_write_access ==
    /\ pc = "access"
    /\ loc.op = "write"
    /\ LET page == PhysIndex(entries[loc.page_index].frame, loc.offset)
       IN  IF page < 0 \/ page >= PhysMemSize
           THEN /\ pc' = "exited"
                /\ UNCHANGED <<adm, entries, data, written, hist>>
           ELSE /\ data' = [data EXCEPT ![page] = loc.wdata]
                /\ written' = [written EXCEPT ![loc.address] = loc.wdata]
                /\ hist' = [hist EXCEPT !.last[loc.address] = loc.wdata,
                                        !.seen[loc.address] = NoVal,
                                        !.done = @ + 1]
                /\ Finish
                /\ pc' = "idle"
    /\ UNCHANGED <<framepage, pagefile, sem, sigusr1, fifo_current, event, log,
                   mpc, idx, loc, holder, res, period>>

(***************************************************************************)
(* The two processes.                                                      *)
(***************************************************************************)
Client ==
    \/ vmem_read_begin
    \/ vmem_write_begin
    \/ vmem_read_bounds
    \/ vmem_write_bounds
    \/ send_sigusr1
    \/ sem_wait
    \/ vmem_read_access
    \/ vmem_write_access

Manager ==
    \/ allocate_page_find
    \/ allocate_page_fetch
    \/ allocate_page_update
    \/ allocate_page_post

Next == Client \/ Manager

Spec == Init /\ [][Next]_vars

(***************************************************************************)
(* The application restricted to page-aligned addresses, which lets it run *)
(* for more accesses: neither the policies nor the handshake look at the   *)
(* offset.                                                                 *)
(***************************************************************************)
AlignedAddresses == {p * VMEM_PAGESIZE : p \in Pages}

vmem_read_aligned(limit) == \E address \in AlignedAddresses : Begin("read", address, 0, limit)

vmem_write_aligned(limit) ==
    \E address \in AlignedAddresses, wdata \in Wdata : Begin("write", address, wdata, limit)

\* the steps of the client inside an access
Resume == send_sigusr1 \/ sem_wait \/ vmem_read_access \/ vmem_write_access

PolicyNext ==
    \/ vmem_read_aligned(MaxAligned)
    \/ vmem_write_aligned(MaxAligned)
    \/ Resume
    \/ Manager

PolicySpec == Init /\ [][PolicyNext]_vars

(***************************************************************************)
(* The handshake under fair scheduling: both processes are scheduled       *)
(* whenever they have a step to take; the application is free to stop      *)
(* issuing accesses.                                                       *)
(***************************************************************************)
FairNext ==
    \/ vmem_read_aligned(MaxAccess)
    \/ vmem_write_aligned(MaxAccess)
    \/ Resume
    \/ Manager

FairSpec == Init /\ [][FairNext]_vars /\ WF_vars(Manager) /\ WF_vars(Resume)

(***************************************************************************)
(* The manager started with -fifo, and an application that runs long       *)
(* enough for a page to be loaded, evicted, reloaded and evicted again.    *)
(***************************************************************************)
InitFifo ==
    /\ Init
    /\ adm.page_rep_algo = VMEM_ALGO_FIFO
    /\ period = 1

FifoNext ==
    \/ vmem_read_aligned(MaxFifo)
    \/ vmem_write_aligned(MaxFifo)
    \/ Resume
    \/ Manager

FifoSpec == InitFifo /\ [][FifoNext]_vars

(***************************************************************************)
(* The whole life of the manager: main() from its first statement, the     *)
(* options it is started with, the application started once the manager    *)
(* waits in its signal loop, and SIGINT.                                   *)
(***************************************************************************)
\* the segment shmget finds: new and zero-filled, or left by an earlier run
\* that ended without cleanup()
PriorEntry(used) ==
    IF used THEN [frame |-> 0, flags |-> BitOr(PTF_DIRTY, PTF_REF), age |-> CHAR_MAX]
    ELSE [frame |-> 0, flags |-> 0, age |-> 0]

InitStart ==
    /\ \E used \in BOOLEAN :
          /\ entries = [p \in Pages |-> PriorEntry(used)]
          /\ framepage = [f \in Frames |-> 0]
          /\ adm = [req_pageno |-> IF used THEN VMEM_NPAGES - 1 ELSE 0,
                    next_alloc_idx |-> IF used THEN VMEM_NFRAMES - 1 ELSE 0,
                    pf_count |-> IF used THEN MaxPrior ELSE 0,
                    g_count |-> IF used THEN MaxPrior ELSE 0,
                    page_rep_algo |-> IF used THEN VMEM_ALGO_AGING ELSE 0]
          /\ data = [w \in 0 .. (PhysMemSize - 1) |-> IF used THEN 1 ELSE 0]
          /\ sem = IF used THEN 1 ELSE 0
          /\ res = [swapfile |-> used, stream |-> FALSE, shm |-> used, sem |-> used,
                    handler |-> FALSE, status |-> "running", created |-> {}]
    /\ pagefile = [w \in 0 .. (VirtMemSize - 1) |-> 0]
    /\ sigusr1 = FALSE
    /\ fifo_current = -1
    /\ event = [req_pageno |-> 0, replaced_page |-> 0, alloc_frame |-> 0,
                pf_count |-> 0, g_count |-> 0]
    /\ log = << >>
    /\ mpc = "start"
    /\ idx = VOID_IDX
    /\ pc = "off"
    /\ loc = [op |-> "none", address |-> 0, wdata |-> 0, offset |-> 0,
              page_index |-> 0, frame |-> VOID_IDX]
    /\ holder = 0
    /\ written = [a \in Addresses |-> NoVal]
    /\ hist = [last |-> [a \in Addresses |-> NoVal],
               seen |-> [a \in Addresses |-> NoVal],
               wsince |-> {},
               visits |-> 0,
               done |-> 0,
               faults |-> 0]
    /\ period \in 1 .. MaxPeriod

\* main line 206: init_pagefile creates the swap file anew and fills it
init_pagefile ==
    /\ mpc = "start"
    /\ pagefile' = PagefileInit
    /\ res' = [res EXCEPT !.swapfile = TRUE, !.stream = TRUE,
                          !.created = @ \cup {"swapfile"}]
    /\ mpc' = "vmem_init"
    /\ UNCHANGED <<entries, framepage, adm, data, sem, sigusr1, fifo_current, event, log,
                   idx, pc, loc, holder, written, hist, period>>

\* vmem_init: the fields it assigns; pf_count, g_count and the frame data are
\* not among them and keep what the segment held.  shmget creates the segment
\* only when there is none; the semaphore is unlinked and created anew
vmem_init ==
    /\ mpc = "vmem_init"
    /\ adm' = [adm EXCEPT !.next_alloc_idx = 0, !.req_pageno = 0]
    /\ entries' = [p \in Pages |-> [frame |-> VOID_IDX, flags |-> 0, age |-> AGE_INIT]]
    /\ framepage' = [f \in Frames |-> VOID_IDX]
    /\ sem' = 0
    /\ res' = [res EXCEPT !.shm = TRUE, !.sem = TRUE,
                          !.created = @ \cup (IF res.shm THEN {"sem"} ELSE {"shm", "sem"})]
    /\ mpc' = "scan_params"
    /\ UNCHANGED <<data, pagefile, sigusr1, fifo_current, event, log, idx, pc, loc,
                   holder, written, hist, period>>

\* the option lists the manager is started with (argv without argv[0])
ArgLists ==
    {<< >>, <<"-fifo">>, <<"-clock">>, <<"-AGING">>, <<"-aging">>, <<"-lru">>,
     <<"-fifo", "-aging">>}

\* scan_params: the policy selected, or a usage error
scan_params(argv) ==
    IF Len(argv) > 1 THEN [ok |-> FALSE, algo |-> VMEM_ALGO_FIFO]
    ELSE IF Len(argv) = 0 THEN [ok |-> TRUE, algo |-> VMEM_ALGO_FIFO]
    ELSE IF argv[1] = "-fifo" THEN [ok |-> TRUE, algo |-> VMEM_ALGO_FIFO]
    ELSE IF argv[1] = "-clock" THEN [ok |-> TRUE, algo |-> VMEM_ALGO_CLOCK]
    ELSE IF argv[1] \in {"-aging", "-AGING"} THEN [ok |-> TRUE, algo |-> VMEM_ALGO_AGING]
    ELSE [ok |-> FALSE, algo |-> VMEM_ALGO_FIFO]

\* main lines 215-217: the default policy, then scan_params; a usage error
\* ends the process through print_usage_info_and_exit, and exit() closes the
\* stream of the swap file
main_scan_params ==
    /\ mpc = "scan_params"
    /\ \E argv \in ArgLists :
          LET r == scan_params(argv)
          IN  /\ adm' = [adm EXCEPT !.page_rep_algo = r.algo]
              /\ IF r.ok
                 THEN /\ mpc' = "sigaction"
                      /\ UNCHANGED res
                 ELSE /\ mpc' = "exited"
                      /\ res' = [res EXCEPT !.stream = FALSE, !.status = "failure"]
    /\ UNCHANGED <<entries, framepage, data, pagefile, sem, sigusr1, fifo_current, event,
                   log, idx, pc, loc, holder, written, hist, period>>

\* main lines 220-231: the handlers of SIGUSR1, SIGUSR2 and SIGINT
main_sigaction ==
    /\ mpc = "sigaction"
    /\ res' = [res EXCEPT !.handler = TRUE]
    /\ mpc' = "pause"
    /\ UNCHANGED <<entries, framepage, adm, data, pagefile, sem, sigusr1, fifo_current,
                   event, log, idx, pc, loc, holder, written, hist, period>>

\* sighandler on SIGINT with a cleanup() that does not remove the segment
sigint_keep ==
    /\ mpc \in {"pause", "fetch", "update", "post"}
    /\ res.handler
    /\ res' = [res EXCEPT !.sem = FALSE, !.stream = FALSE,
                          !.handler = FALSE, !.status = "success"]
    /\ mpc' = "exited"
    /\ UNCHANGED <<entries, framepage, adm, data, pagefile, sem, sigusr1, fifo_current,
                   event, log, idx, pc, loc, holder, written, hist, period>>

\* sighandler on SIGINT: cleanup() unlinks and closes the semaphore and removes
\* the segment, exit() ends the process and closes the stream of the swap file
sigint ==
    /\ mpc \in {"pause", "fetch", "update", "post"}
    /\ res.handler
    /\ res' = [res EXCEPT !.sem = FALSE, !.shm = FALSE, !.stream = FALSE,
                          !.handler = FALSE, !.status = "success"]
    /\ mpc' = "exited"
    /\ UNCHANGED <<entries, framepage, adm, data, pagefile, sem, sigusr1, fifo_current,
                   event, log, idx, pc, loc, holder, written, hist, period>>

\* the application is started while the manager waits in its loop; its first
\* access attaches the segment and opens the semaphore
app_start ==
    /\ pc = "off"
    /\ mpc = "pause"
    /\ pc' = "idle"
    /\ UNCHANGED <<entries, framepage, adm, data, pagefile, sem, sigusr1, fifo_current,
                   event, log, mpc, idx, loc, holder, written, hist, res, period>>

Startup == init_pagefile \/ vmem_init \/ main_scan_params \/ main_sigaction

LifeNext ==
    \/ Startup
    \/ app_start
    \/ vmem_read_aligned(MaxLife)
    \/ vmem_write_aligned(MaxLife)
    \/ Resume
    \/ Manager
    \/ sigint

LifeSpec == InitStart /\ [][LifeNext]_vars

TypeOK ==
    /\ \A p \in Pages : entries[p].frame \in Frames \cup {VOID_IDX}
    /\ \A p \in Pages : entries[p].flags \in 0 .. 7
    /\ \A p \in Pages : entries[p].age \in 0 .. UCHAR_MAX
    /\ \A f \in Frames : framepage[f] \in Pages \cup {VOID_IDX}
    /\ pc \in {"off", "idle", "kill", "wait", "access", "exited"}
    /\ mpc \in {"start", "vmem_init", "scan_params", "sigaction",
                 "pause", "fetch", "update", "post", "exited"}
    /\ res.status \in {"running", "success", "failure"}
    /\ res.created \subseteq {"swapfile", "shm", "sem"}
    /\ sem \in 0 .. 1


(***************************************************************************)
(* Vocabulary of the properties.                                           *)
(***************************************************************************)
Resident(p) == entries[p].frame # VOID_IDX
Referenced(p) == BitAnd(entries[p].flags, PTF_REF) # 0
Dirty(p) == BitAnd(entries[p].flags, PTF_DIRTY) # 0
\* the handler is not running
NoFaultInService == mpc = "pause"
\* this step is the handler choosing a victim
EvictStep == mpc = "pause" /\ mpc' = "fetch"
\* the client has just been woken from the wait of a fault
Woken == pc = "access" /\ loc.frame = VOID_IDX
\* a fault whose handler evicted a page has been logged
Evicted == Len(log) > 0 /\ log[Len(log)].replaced_page # VOID_IDX
\* the words of page p in the swap store, and of frame f in the frame data
Slot(pf, p) == [j \in 0 .. (VMEM_PAGESIZE - 1) |-> pf[p * VMEM_PAGESIZE + j]]
FrameWords(dat, f) == [j \in 0 .. (VMEM_PAGESIZE - 1) |-> dat[f * VMEM_PAGESIZE + j]]

(***************************************************************************)
(* C1: whenever no fault is being serviced, the frame table and the page   *)
(* table agree in both directions and no two entries hold the same frame.  *)
(***************************************************************************)
C1_TablesConsistent ==
    NoFaultInService =>
        /\ \A f \in Frames : framepage[f] # VOID_IDX => entries[framepage[f]].frame = f
        /\ \A p \in Pages : entries[p].frame # VOID_IDX => framepage[entries[p].frame] = p
        /\ \A p, q \in Pages :
              (p # q /\ entries[p].frame # VOID_IDX) => entries[p].frame # entries[q].frame

C1_Witness ==
    /\ NoFaultInService
    /\ Evicted
    /\ \A f \in Frames : framepage[f] # VOID_IDX
    /\ \E p \in Pages : entries[p].frame = VOID_IDX /\ entries[p].flags # 0

(***************************************************************************)
(* C2: when the client resumes from its wait the handler has finished:     *)
(* the requested page has a valid frame, that frame names the page, the    *)
(* victim is not resident, and while the client waits it neither reads nor *)
(* writes frame data (only the handler's load changes data).               *)
(***************************************************************************)
C2_WokenState ==
    Woken =>
        /\ mpc = "pause"
        /\ adm.req_pageno = loc.page_index
        /\ entries[loc.page_index].frame \in Frames
        /\ framepage[entries[loc.page_index].frame] = loc.page_index
        /\ event.req_pageno = loc.page_index
        /\ event.alloc_frame = entries[loc.page_index].frame
        /\ event.replaced_page # VOID_IDX => entries[event.replaced_page].frame = VOID_IDX

C2_NoAccessWhileWaiting ==
    pc \in {"kill", "wait"} =>
        /\ holder' = holder
        /\ data' # data => mpc = "fetch"
        /\ pc' = "access" => (pc = "wait" /\ sem = 1 /\ mpc = "pause")

C2_UpdateBeforeRelease == [](C2_WokenState) /\ [][C2_NoAccessWhileWaiting]_vars

C2_Witness == Woken /\ event.replaced_page # VOID_IDX

(***************************************************************************)
(* C3: the semaphore is released once per fault: its value is at most 1,   *)
(* it is 0 outside a fault episode, and a release is pending only for the  *)
(* fault the waiting client asked for.                                     *)
(***************************************************************************)
C3_OneReleasePerFault ==
    /\ sem \in {0, 1}
    /\ pc \notin {"kill", "wait"} => (sem = 0 /\ ~sigusr1 /\ mpc = "pause")
    /\ sem = 1 => /\ pc = "wait"
                  /\ mpc = "pause"
                  /\ ~sigusr1
                  /\ Len(log) > 0
                  /\ log[Len(log)].req_pageno = loc.page_index
    /\ pc = "wait" =>
          (IF sigusr1 THEN 1 ELSE 0) + (IF mpc # "pause" THEN 1 ELSE 0) + sem = 1

C3_Witness == sem = 1 /\ adm.pf_count > VMEM_NFRAMES


(***************************************************************************)
(* C4: under fair scheduling every access that found its page not          *)
(* resident is eventually completed.                                       *)
(***************************************************************************)
C4_FaultCompletes == (pc = "kill") ~> (pc = "idle")

C4_Witness == pc = "idle" /\ loc.op # "none" /\ loc.frame = VOID_IDX /\ Evicted

(***************************************************************************)
(* C5: a read of an address returns the value written to it, as long as    *)
(* the page of the address has not been evicted since the write.           *)
(***************************************************************************)
C5_RoundTrip ==
    (pc = "idle" /\ loc.op = "read" /\ written[loc.address] # NoVal)
        => holder = written[loc.address]

C5_Witness ==
    /\ pc = "idle"
    /\ loc.op = "read"
    /\ written[loc.address] # NoVal
    /\ Evicted
    /\ \E a \in Addresses : a # loc.address /\ written[a] # NoVal

(***************************************************************************)
(* C6: under FIFO the first NFRAMES faults fill the frames in order and    *)
(* the k-th eviction takes frame (k-1) mod NFRAMES, whose page is the one  *)
(* allocated NFRAMES faults earlier; the first eviction removes the page   *)
(* of the first fault and puts the requested page into frame 0.            *)
(***************************************************************************)
C6_FifoOrder ==
    adm.page_rep_algo = VMEM_ALGO_FIFO =>
        /\ \A k \in 1 .. Len(log) :
              IF k <= VMEM_NFRAMES
              THEN log[k].replaced_page = VOID_IDX /\ log[k].alloc_frame = k - 1
              ELSE /\ log[k].alloc_frame = (k - VMEM_NFRAMES - 1) % VMEM_NFRAMES
                   /\ log[k].replaced_page = log[k - VMEM_NFRAMES].req_pageno
        /\ (NoFaultInService /\ Len(log) = VMEM_NFRAMES + 1) =>
              /\ entries[log[1].req_pageno].frame = VOID_IDX
              /\ entries[log[VMEM_NFRAMES + 1].req_pageno].frame = 0
              /\ framepage[0] = log[VMEM_NFRAMES + 1].req_pageno

\* the cursor has wrapped: the second eviction of frame 0
C6_Witness ==
    /\ adm.page_rep_algo = VMEM_ALGO_FIFO
    /\ NoFaultInService
    /\ Len(log) = 2 * VMEM_NFRAMES + 1
    /\ log[Len(log)].alloc_frame = 0
    /\ \E p \in Pages : Resident(p) /\ Referenced(p) /\ Dirty(p)

(***************************************************************************)
(* C7: a CLOCK scan starts at the frame after the cursor.  Every frame it  *)
(* passes with REFERENCED set is kept and loses exactly that bit; the      *)
(* victim is the first frame in circular order whose REFERENCED bit is     *)
(* clear when visited (after a full lap of set bits, the start frame).     *)
(***************************************************************************)
ClockStart == NextCursor(fifo_current)
ClockDist(f) == (f - ClockStart) % VMEM_NFRAMES
ClockClear == {f \in Frames : ~Referenced(framepage[f])}
\* the victim the claim names, from the state before the scan
ClockVictim ==
    IF ClockClear = {} THEN ClockStart
    ELSE CHOOSE f \in ClockClear : \A g \in ClockClear : ClockDist(f) <= ClockDist(g)
\* the frames passed with REFERENCED set
ClockPassed ==
    IF ClockClear = {} THEN Frames
    ELSE {f \in Frames : ClockDist(f) < ClockDist(ClockVictim)}

C7_ClockStep ==
    (EvictStep /\ adm.page_rep_algo = VMEM_ALGO_CLOCK) =>
        /\ idx' = ClockVictim
        /\ fifo_current' = ClockVictim
        /\ event'.replaced_page = framepage[ClockVictim]
        /\ \A f \in ClockPassed :
              /\ Referenced(framepage[f])
              /\ entries'[framepage[f]].flags = entries[framepage[f]].flags - PTF_REF
              /\ f # ClockVictim => entries'[framepage[f]].frame = f
        /\ \A p \in Pages :
              (\A f \in ClockPassed : framepage[f] # p) =>
                  entries'[p].flags = entries[p].flags
        /\ entries'[framepage[ClockVictim]].frame = VOID_IDX
        /\ BitAnd(entries'[framepage[ClockVictim]].flags, PTF_REF) = 0

C7_ClockSecondChance == [][C7_ClockStep]_vars

\* a scan has passed a referenced frame and taken a later one
C7_Witness ==
    /\ adm.page_rep_algo = VMEM_ALGO_CLOCK
    /\ mpc = "fetch"
    /\ \E p \in Pages : Resident(p) /\ ~Referenced(p) /\ Dirty(p)
    /\ Dirty(event.replaced_page)

(***************************************************************************)
(* C8: AGING evicts a frame whose page has the smallest age; among several *)
(* frames of that smallest age it takes the one with the highest index.    *)
(***************************************************************************)
MinAgeFrames ==
    {f \in Frames : \A g \in Frames : entries[framepage[f]].age <= entries[framepage[g]].age}

C8_AgingStepLast ==
    (EvictStep /\ adm.page_rep_algo = VMEM_ALGO_AGING) =>
        /\ idx' \in MinAgeFrames
        /\ \A f \in MinAgeFrames : f <= idx'
        /\ event'.replaced_page = framepage[idx']

C8_AgingVictimLast == [][C8_AgingStepLast]_vars

\* C8 as stated: among the frames of smallest age the lowest index is taken
C8_AgingStepFirst ==
    (EvictStep /\ adm.page_rep_algo = VMEM_ALGO_AGING) =>
        /\ idx' \in MinAgeFrames
        /\ \A f \in MinAgeFrames : idx' <= f

C8_AgingVictimFirst == [][C8_AgingStepFirst]_vars

\* an eviction among pages of different ages has taken a frame other than the last
C8_Witness ==
    /\ adm.page_rep_algo = VMEM_ALGO_AGING
    /\ mpc = "fetch"
    /\ idx # VMEM_NFRAMES - 1
    /\ \A f \in Frames : f # idx => entries[framepage[f]].age > AGE_INIT

(***************************************************************************)
(* C9: a decay pass halves the age of every resident page; a page that was *)
(* referenced also gets the top bit of its age set and its REFERENCED bit  *)
(* cleared; DIRTY bits and all non-resident pages are left alone.          *)
(***************************************************************************)
\* this step ends an access with a decay pass
DecayStep ==
    /\ pc = "access"
    /\ pc' = "idle"
    /\ adm.page_rep_algo = VMEM_ALGO_AGING
    /\ adm'.g_count % UPDATE_AGE_COUNT = 0

C9_DecayEffect ==
    DecayStep =>
        \A p \in Pages :
            IF Resident(p)
            THEN /\ entries'[p].age =
                       (entries[p].age \div 2) + (IF Referenced(p) THEN 128 ELSE 0)
                 /\ entries'[p].age \in 0 .. 255
                 /\ BitAnd(entries'[p].flags, PTF_REF) = 0
                 /\ BitAnd(entries'[p].flags, PTF_DIRTY) = BitAnd(entries[p].flags, PTF_DIRTY)
                 /\ entries'[p].frame = entries[p].frame
            ELSE entries'[p] = entries[p]

C9_DecayPass == [][C9_DecayEffect]_vars

\* after a pass: a page aged without a reference, and one aged with it
C9_Witness ==
    /\ adm.page_rep_algo = VMEM_ALGO_AGING
    /\ pc = "idle"
    /\ adm.g_count > 0
    /\ adm.g_count % UPDATE_AGE_COUNT = 0
    /\ \E p, q \in Pages :
          /\ Resident(p) /\ entries[p].age < AGE_INIT
          /\ Resident(q) /\ entries[q].age > AGE_INIT /\ Dirty(q)

(***************************************************************************)
(* C10: the step that evicts writes the victim frame to the victim's swap  *)
(* slot exactly when the victim is DIRTY, and does so before the frame is  *)
(* loaded; no other step of a fault writes the swap store.                 *)
(***************************************************************************)
C10_WriteBackStep ==
    /\ EvictStep =>
          /\ data' = data
          /\ \A p \in Pages :
                Slot(pagefile', p) =
                    IF p = event'.replaced_page /\ Dirty(p)
                    THEN FrameWords(data, idx')
                    ELSE Slot(pagefile, p)
    /\ ~EvictStep => pagefile' = pagefile

C10_DirtyWrittenBack == [][C10_WriteBackStep]_vars

\* a dirty victim whose frame differed from its swap slot has been written back
C10_Witness ==
    /\ mpc = "fetch"
    /\ Dirty(event.replaced_page)
    /\ Slot(pagefile, event.replaced_page) = FrameWords(data, idx)
    /\ Slot(pagefile, event.replaced_page) # Slot(PagefileInit, event.replaced_page)

(***************************************************************************)
(* C11: an access whose page number lies outside the page table ends the   *)
(* client, and the step that ends it changes nothing in the shared segment *)
(* (page table, frame table, administrative block with its requested-page  *)
(* slot, frame data) and sends no fault notification.                      *)
(***************************************************************************)
C11_BoundsFaultStep ==
    (pc = "idle" /\ pc' # "idle" /\ loc'.page_index \notin Pages) =>
        /\ pc' = "exited"
        /\ UNCHANGED <<entries, framepage, adm, data, sigusr1>>

C11_BoundsFaultClean == [][C11_BoundsFaultStep]_vars

(***************************************************************************)
(* C12: for every address inside the address space the bit masks give      *)
(* offset = address mod page size and page number = address div page size, *)
(* and the physical index (frame * page size) | offset equals              *)
(* frame * page size + offset for every frame.                             *)
(***************************************************************************)
C12_Decomposition ==
    (loc.op # "none" /\ loc.address \in Addresses) =>
        /\ loc.offset = loc.address % VMEM_PAGESIZE
        /\ loc.page_index = loc.address \div VMEM_PAGESIZE
        /\ \A f \in Frames :
              PhysIndex(f, loc.offset) = f * VMEM_PAGESIZE + loc.offset

\* an access to a word that is not the first of its page, in a page and a
\* frame that are not the first, has reached the frame data
C12_Witness ==
    /\ pc = "idle"
    /\ loc.op = "write"
    /\ loc.offset > 0
    /\ loc.page_index > 0
    /\ entries[loc.page_index].frame > 0
    /\ data[entries[loc.page_index].frame * VMEM_PAGESIZE + loc.offset] = loc.wdata

(***************************************************************************)
(* C13: a read of an address that has been written returns the value of    *)
(* the most recent write to it, however often its page has been evicted    *)
(* and reloaded in between.                                                *)
(***************************************************************************)
C13_Transparent ==
    (pc = "idle" /\ loc.op = "read" /\ hist.last[loc.address] # NoVal)
        => holder = hist.last[loc.address]

\* a read has faulted on a page that was evicted after the address was
\* written, and has returned
C13_Witness ==
    /\ pc = "idle"
    /\ loc.op = "read"
    /\ loc.frame = VOID_IDX
    /\ Evicted
    /\ hist.last[loc.address] # NoVal
    /\ written[loc.address] = NoVal
    /\ holder = hist.last[loc.address]

(***************************************************************************)
(* C14: two reads of the same address with no write to that address        *)
(* between them return the same value, also when the page was first placed *)
(* in a free frame, evicted, and reloaded from the swap store.             *)
(***************************************************************************)
C14_ReadStable ==
    (pc = "idle" /\ loc.op = "read" /\ hist.seen[loc.address] # NoVal)
        => holder = hist.seen[loc.address]

(***************************************************************************)
(* C15: after a fault served by eviction, at the moment the client is      *)
(* released the words of the allocated frame equal the requested page's    *)
(* swap slot; the frame loaded is the one the victim was taken from, and   *)
(* no step of the handler changes the data of any other frame.             *)
(***************************************************************************)
C15_LoadedAtRelease ==
    (pc = "wait" /\ sem = 1 /\ event.replaced_page # VOID_IDX) =>
        /\ event.alloc_frame = idx
        /\ entries[adm.req_pageno].frame = idx
        /\ FrameWords(data, idx) = Slot(pagefile, adm.req_pageno)

C15_HandlerStep ==
    /\ EvictStep => framepage[idx'] = event'.replaced_page
    /\ mpc' # mpc =>
          \A f \in Frames : f # idx' => FrameWords(data', f) = FrameWords(data, f)

C15_EvictionLoad == [](C15_LoadedAtRelease) /\ [][C15_HandlerStep]_vars

\* the client is about to be released after a fault that evicted a page from
\* a frame other than the first and reloaded a page written back earlier
C15_Witness ==
    /\ pc = "wait"
    /\ sem = 1
    /\ event.replaced_page # VOID_IDX
    /\ idx > 0
    /\ FrameWords(data, idx) = Slot(pagefile, adm.req_pageno)
    /\ Slot(pagefile, adm.req_pageno) # Slot(PagefileInit, adm.req_pageno)
    /\ \E f \in Frames : FrameWords(data, f) # FrameWords(data, idx)

(***************************************************************************)
(* C16: a page that has not been written during its present residency      *)
(* (its fault was a read and it was only read since) is not written back   *)
(* when it is evicted, even if it was written during an earlier residency: *)
(* its DIRTY bit, which alone decides the write-back, is clear then.       *)
(***************************************************************************)
C16_CleanStep ==
    (EvictStep /\ event'.replaced_page \notin hist.wsince) =>
        /\ ~Dirty(event'.replaced_page)
        /\ pagefile' = pagefile

C16_LoadedClean == [][C16_CleanStep]_vars

(***************************************************************************)
(* C17: CLOCK victim selection terminates after inspecting at most         *)
(* NFRAMES + 1 frames; it inspects NFRAMES + 1 exactly when every resident *)
(* page is REFERENCED: one full lap clears all bits and the frame          *)
(* inspected first is inspected again and evicted.                         *)
(***************************************************************************)
C17_ScanStep ==
    (EvictStep /\ adm.page_rep_algo = VMEM_ALGO_CLOCK) =>
        /\ hist'.visits >= 1
        /\ hist'.visits <= VMEM_NFRAMES + 1
        /\ hist'.visits = VMEM_NFRAMES + 1 <=>
               \A f \in Frames : Referenced(framepage[f])

C17_ClockTerminates == [][C17_ScanStep]_vars

\* C17 as stated: the scan never inspects more than NFRAMES frames
C17_ClockOneLap ==
    adm.page_rep_algo = VMEM_ALGO_CLOCK => hist.visits <= VMEM_NFRAMES

\* a scan that found every resident page REFERENCED has ended
C17_Witness ==
    /\ adm.page_rep_algo = VMEM_ALGO_CLOCK
    /\ mpc = "fetch"
    /\ hist.visits = VMEM_NFRAMES + 1
    /\ \A f \in Frames : ~Referenced(framepage[f])

(***************************************************************************)
(* C18: a fault takes the free frame with the smallest index if a frame is *)
(* free, and evicts only when none is; so the occupied frames always form  *)
(* an initial segment 0..k-1 and an occupied frame never becomes free.     *)
(***************************************************************************)
C18_FilledInOrder ==
    \A f, g \in Frames : (g < f /\ framepage[f] # VOID_IDX) => framepage[g] # VOID_IDX

C18_FrameStep ==
    /\ \A f \in Frames : framepage[f] # VOID_IDX => framepage'[f] # VOID_IDX
    /\ (mpc = "pause" /\ mpc' # "pause") =>
          IF \E f \in Frames : framepage[f] = VOID_IDX
          THEN /\ framepage[idx'] = VOID_IDX
               /\ \A g \in Frames : g < idx' => framepage[g] # VOID_IDX
               /\ mpc' = "update"
               /\ event'.replaced_page = VOID_IDX
               /\ UNCHANGED <<entries, pagefile, fifo_current>>
          ELSE /\ mpc' = "fetch"
               /\ event'.replaced_page # VOID_IDX
               /\ framepage[idx'] = event'.replaced_page

C18_FreeFramesFirst == [](C18_FilledInOrder) /\ [][C18_FrameStep]_vars

\* the frames were filled in the order 0, 1, ... without eviction, and the
\* fault after the last free frame was used evicted a page
C18_Witness ==
    /\ Len(log) > VMEM_NFRAMES
    /\ \A i \in 1 .. VMEM_NFRAMES :
          log[i].alloc_frame = i - 1 /\ log[i].replaced_page = VOID_IDX
    /\ log[VMEM_NFRAMES + 1].replaced_page # VOID_IDX
    /\ \A f \in Frames : framepage[f] # VOID_IDX

(***************************************************************************)
(* C19: the first step of every read and write sets REFERENCED on the      *)
(* entry of the accessed page, resident or not; a write sets DIRTY as      *)
(* well, a read leaves DIRTY as it was; the entries of all other pages are *)
(* left alone, and the later steps of the client change entries only in    *)
(* the decay pass of AGING.                                                *)
(***************************************************************************)
C19_BeginStep ==
    (pc = "idle" /\ pc' \in {"kill", "access"}) =>
        LET p == loc'.page_index
        IN  /\ BitAnd(entries'[p].flags, PTF_REF) = PTF_REF
            /\ loc'.op = "write" => BitAnd(entries'[p].flags, PTF_DIRTY) = PTF_DIRTY
            /\ loc'.op = "read" =>
                   BitAnd(entries'[p].flags, PTF_DIRTY) = BitAnd(entries[p].flags, PTF_DIRTY)
            /\ (pc' = "kill") <=> ~Resident(p)
            /\ entries'[p].frame = entries[p].frame
            /\ entries'[p].age = entries[p].age
            /\ \A q \in Pages : q # p => entries'[q] = entries[q]

C19_ClientStep ==
    (pc # "idle" /\ pc' # pc /\ ~DecayStep) => entries' = entries

C19_AccessFlags == [][C19_BeginStep /\ C19_ClientStep]_vars

\* a read of a page that is not resident and carries DIRTY from an earlier
\* write has set its REFERENCED bit, while another page is resident
C19_Witness ==
    /\ pc = "kill"
    /\ loc.op = "read"
    /\ Referenced(loc.page_index)
    /\ Dirty(loc.page_index)
    /\ \E q \in Pages : q # loc.page_index /\ Resident(q) /\ ~Dirty(q)

(***************************************************************************)
(* C20: no step clears a DIRTY bit: once set it stays set across           *)
(* evictions, write-backs, reloads, CLOCK scans and AGING decay passes.    *)
(***************************************************************************)
C20_DirtyStep ==
    \A p \in Pages :
        Dirty(p) => BitAnd(entries'[p].flags, PTF_DIRTY) = PTF_DIRTY

C20_DirtyNeverCleared == [][C20_DirtyStep]_vars

\* a page written earlier has been evicted and written back, is not
\* resident, and still carries DIRTY; a decay pass or a CLOCK scan has
\* cleared REFERENCED bits meanwhile
C20_Witness ==
    /\ NoFaultInService
    /\ \E p \in Pages :
          /\ Dirty(p)
          /\ ~Resident(p)
          /\ ~Referenced(p)
          /\ Slot(pagefile, p) # Slot(PagefileInit, p)

(***************************************************************************)
(* C21: from the fault notification until the client has been woken the    *)
(* requested-page slot holds the faulting page number; no step of the      *)
(* handler writes the slot; the handler maps and logs exactly that page;   *)
(* and at most one fault is pending or in service at any time.             *)
(***************************************************************************)
C21_SlotHeld ==
    (pc \in {"kill", "wait"} \/ Woken) => adm.req_pageno = loc.page_index

C21_OneEpisode ==
    /\ ~(sigusr1 /\ mpc # "pause")
    /\ (sigusr1 \/ mpc \in {"fetch", "update", "post"}) => pc = "wait"

C21_Allocated ==
    Woken =>
        /\ Resident(loc.page_index)
        /\ framepage[entries[loc.page_index].frame] = loc.page_index
        /\ log[Len(log)].req_pageno = loc.page_index

C21_HandlerStep == mpc' # mpc => adm'.req_pageno = adm.req_pageno

C21_RequestSlot ==
    /\ [](C21_SlotHeld /\ C21_OneEpisode /\ C21_Allocated)
    /\ [][C21_HandlerStep]_vars

\* a client has been woken from a fault on a page other than page 0 that
\* was served by eviction
C21_Witness ==
    /\ Woken
    /\ Evicted
    /\ loc.page_index > 0
    /\ adm.req_pageno = loc.page_index
    /\ log[Len(log)].req_pageno = loc.page_index

(***************************************************************************)
(* C22: pf_count grows by one with each fault notification the handler     *)
(* takes and g_count by one with each completed access, and neither        *)
(* changes otherwise; so whenever the client is between accesses g_count   *)
(* is the number of completed accesses and pf_count the number of accesses *)
(* that found their page not resident.                                     *)
(***************************************************************************)
C22_CountStep ==
    /\ adm'.pf_count = adm.pf_count + (IF sigusr1 /\ ~sigusr1' THEN 1 ELSE 0)
    /\ adm'.g_count = adm.g_count + (IF pc = "access" /\ pc' = "idle" THEN 1 ELSE 0)

C22_Totals ==
    pc = "idle" => (adm.g_count = hist.done /\ adm.pf_count = hist.faults)

C22_Counters == [](C22_Totals) /\ [][C22_CountStep]_vars

(***************************************************************************)
(* C23: once the manager has set up the segment, and until the first       *)
(* fault, every page table entry is not resident with zero flags and the   *)
(* default age, every frame is free, both counters are zero and the        *)
(* semaphore is 0, whatever the segment held before.                       *)
(***************************************************************************)
C23_AfterInit ==
    (mpc \in {"scan_params", "sigaction"} \/ (mpc = "pause" /\ pc = "off")) =>
        /\ \A p \in Pages :
              entries[p] = [frame |-> VOID_IDX, flags |-> 0, age |-> AGE_INIT]
        /\ \A f \in Frames : framepage[f] = VOID_IDX
        /\ adm.pf_count = 0
        /\ adm.g_count = 0
        /\ sem = 0

(***************************************************************************)
(* C24: under AGING the step that ends an access runs the decay pass       *)
(* exactly when the access counter it leaves is a multiple of the period;  *)
(* under FIFO and CLOCK it never does.  No other step of the client        *)
(* changes an age or clears a REFERENCED bit, and no step of the manager   *)
(* halves an age.                                                          *)
(***************************************************************************)
\* the entries after a decay pass over the entries before it
C24_PassRan ==
    \A p \in Pages :
        IF Resident(p)
        THEN /\ entries'[p].age = (entries[p].age \div 2) + (IF Referenced(p) THEN 128 ELSE 0)
             /\ BitAnd(entries'[p].flags, PTF_REF) = 0
        ELSE entries'[p] = entries[p]

C24_Step ==
    /\ (pc = "access" /\ pc' = "idle") =>
          IF adm.page_rep_algo = VMEM_ALGO_AGING /\ adm'.g_count % UPDATE_AGE_COUNT = 0
          THEN C24_PassRan /\ Referenced(loc.page_index)
          ELSE entries' = entries
    /\ (pc' # pc /\ ~(pc = "access" /\ pc' = "idle")) =>
          \A p \in Pages :
              /\ entries'[p].age = entries[p].age
              /\ Referenced(p) => BitAnd(entries'[p].flags, PTF_REF) = PTF_REF
    /\ mpc' # mpc =>
          \A p \in Pages : entries'[p].age \in {entries[p].age, AGE_INIT}

C24_DecaySchedule == [][C24_Step]_vars

\* under AGING with period 2 the third access has ended without a pass, the
\* second one having ended with one
C24_Witness ==
    /\ adm.page_rep_algo = VMEM_ALGO_AGING
    /\ UPDATE_AGE_COUNT = 2
    /\ pc = "idle"
    /\ adm.g_count = 3
    /\ Referenced(loc.page_index)
    /\ \E p \in Pages : Resident(p) /\ entries[p].age # AGE_INIT /\ ~Referenced(p)

(***************************************************************************)
(* C25: under AGING every page that is not resident has the initial age    *)
(* 0x80, and the page a fault has just placed in a frame has age 0x80 when *)
(* the handler is about to release the client.                             *)
(***************************************************************************)
C25_AgeReset ==
    adm.page_rep_algo = VMEM_ALGO_AGING =>
        /\ \A p \in Pages : ~Resident(p) => entries[p].age = AGE_INIT
        /\ mpc = "post" =>
              /\ Resident(adm.req_pageno)
              /\ entries[adm.req_pageno].age = AGE_INIT

\* with a decay pass after every access, a page that has been resident (and
\* so aged away from 0x80) has been evicted and the next page is in its frame
C25_Witness ==
    /\ adm.page_rep_algo = VMEM_ALGO_AGING
    /\ UPDATE_AGE_COUNT = 1
    /\ mpc = "post"
    /\ event.replaced_page # VOID_IDX
    /\ ~Resident(event.replaced_page)
    /\ entries[event.replaced_page].age = AGE_INIT
    /\ \E p \in Pages : Resident(p) /\ entries[p].age # AGE_INIT

(***************************************************************************)
(* C26: as long as the client has used in-range addresses only, no bounds  *)
(* test fires: the manager never exits, the client has not exited, the     *)
(* frame index the handler works with is in 0..NFRAMES-1, the page it      *)
(* loads and the page it evicted are in 0..NPAGES-1, and the physical      *)
(* index of the access is within the frame data.                           *)
(***************************************************************************)
C26_NoBoundsFault ==
    /\ mpc # "exited"
    /\ pc = "exited" => loc.address \notin Addresses
    /\ mpc \in {"fetch", "update", "post"} =>
          /\ idx \in Frames
          /\ adm.req_pageno \in Pages
          /\ event.replaced_page # VOID_IDX => event.replaced_page \in Pages
    /\ pc = "access" =>
          PhysIndex(entries[loc.page_index].frame, loc.offset) \in 0 .. (PhysMemSize - 1)

\* after an eviction the client accesses the last word of the frame data
C26_Witness ==
    /\ Woken
    /\ Evicted
    /\ log[Len(log)].replaced_page \in Pages
    /\ log[Len(log)].alloc_frame = VMEM_NFRAMES - 1
    /\ PhysIndex(entries[loc.page_index].frame, loc.offset) = PhysMemSize - 1

(***************************************************************************)
(* C27: when the manager has exited with failure status over its options,  *)
(* no fault handler is installed and nothing this run created remains: not *)
(* the swap file, not the shared segment, not the semaphore.               *)
(***************************************************************************)
C27_NoPartialStartup ==
    res.status = "failure" =>
        /\ mpc = "exited"
        /\ ~res.handler
        /\ "swapfile" \in res.created => ~res.swapfile
        /\ "shm" \in res.created => ~res.shm
        /\ "sem" \in res.created => ~res.sem

\* the part of C27 the program keeps: the exit is a failure exit taken before
\* any handler is installed and before the application can start
C27_ExitBeforeHandlers ==
    res.status = "failure" => mpc = "exited" /\ ~res.handler /\ pc = "off"

(***************************************************************************)
(* C28: once the manager has handled the terminate signal it has exited    *)
(* and holds neither the semaphore, the segment, the stream of the swap    *)
(* file nor a handler; from then on no fault is serviced (nothing is       *)
(* logged, no page is placed, the semaphore is never posted), and a client *)
(* that waits for a fault that was not yet answered stays waiting.         *)
(***************************************************************************)
C28_Released ==
    res.status = "success" =>
        /\ mpc = "exited"
        /\ ~res.sem
        /\ ~res.shm
        /\ ~res.stream
        /\ ~res.handler

C28_AfterExit ==
    res.status = "success" =>
        /\ mpc' = "exited"
        /\ log' = log
        /\ framepage' = framepage
        /\ pagefile' = pagefile
        /\ \A p \in Pages : entries'[p].frame = entries[p].frame
        /\ sem' <= sem
        /\ (pc \in {"kill", "wait"} /\ sem = 0) => pc' \in {"kill", "wait"}

C28_Terminate == [](C28_Released) /\ [][C28_AfterExit]_vars

\* the manager has gone on SIGINT and the client waits for a page that was
\* never placed
C28_Witness ==
    /\ res.status = "success"
    /\ pc = "wait"
    /\ sem = 0
    /\ ~Resident(loc.page_index)
    /\ adm.g_count > 0

====
